---- MODULE Spec2Model ----
(***************************************************************************)
(* audio-splicer: the POST /splice-videos handler (src/app.py) and the     *)
(* splicing pipeline (src/splice_videos.py): validate_request, execute,    *)
(* download_video.  The download tool (yt_dlp) and the audio library       *)
(* (pydub) are external: the first is a nondeterministic choice of status, *)
(* progress-hook calls and file written; the second is concatenation of    *)
(* chunk sequences.                                                        *)
(***************************************************************************)
EXTENDS Integers, Sequences, FiniteSets, TLC

VARIABLES
    limit,      \* how many requests the server handles at once (1: one at a time)
    reqCount,   \* requests received so far
    artifact,   \* the file COMBINED_AUDIO_FILE_NAME: [exists, data]
    temp,       \* the directory TEMP_FILE_DIR_NAME: [exists, files]
    th,         \* per handler thread: position and locals of splice_videos/execute/download_video
    hist,       \* per handler thread: history of the request in progress
    races       \* history: which cross-request interferences have happened

vars == <<limit, reqCount, artifact, temp, th, hist, races>>

(* ------------------------------ bounds -------------------------------- *)
MaxItems == 2       \* longest video_details_list drawn for validate_request alone
MaxSegs == 2        \* longest video_details_list of a request that is executed
MaxRequests == 2    \* requests received in one run, one request at a time
MaxConcRequests == 3 \* requests received in one run, two at a time

Threads == 1..2

(* --------------------------- JSON values ------------------------------ *)
Null == [t |-> "null", v |-> 0]
Str == [t |-> "str", v |-> 0]
IntV(n) == [t |-> "int", v |-> n]

ItemKeys == {"video_id", "start_time", "end_time"}

\* One entry of video_details_list: a JSON object with the keys `keys`, or
\* (t /= "obj") a JSON value that is no object.
Item(t, keys, vid, s, e) ==
    [t |-> t, keys |-> keys, video_id |-> vid, start_time |-> s, end_time |-> e]

\* The request body: JSON null / no body, a JSON array, or an object whose
\* members splice_offset and video_details_list are Null when absent.
Body(t, so, vt, items) ==
    [t |-> t, splice_offset |-> so, vdl_t |-> vt, video_details_list |-> items]

NoBody == Body("null", Null, "null", <<>>)

(* ------------------------- validate_request --------------------------- *)
EmptyRequest == [splice_offset |-> 0, video_details_list |-> <<>>]

Raise(kind, description) ==
    [kind |-> kind, description |-> description, req |-> EmptyRequest]

Return(req) ==
    [kind |-> "return", description |-> "", req |-> req]

\* VideoMetadata(**item): TypeError unless item is a mapping with exactly the
\* three keyword arguments of __init__.  The values are stored as they come.
VideoMetadataOk(item) ==
    item.t = "obj" /\ item.keys = ItemKeys

VideoMetadata(item) ==
    [video_id |-> item.video_id, start_time |-> item.start_time, end_time |-> item.end_time]

\* Python's a < b on JSON values: defined on numbers, TypeError otherwise.
Comparable(a, b) == a.t = "int" /\ b.t = "int"

\* A variant of the loop that checks constraint by constraint over the whole
\* list (all negative times first, then all start/end orders).
CheckTimesByConstraint(list, k) ==
    LET rest == k..Len(list) IN
    IF \E j \in rest : list[j].start_time.t # "int" \/ list[j].end_time.t # "int" THEN "TypeError"
    ELSE IF \E j \in rest : list[j].start_time.v < 0 THEN "start_time_negative"
    ELSE IF \E j \in rest : list[j].end_time.v < 0 THEN "end_time_negative"
    ELSE IF \E j \in rest : list[j].start_time.v > list[j].end_time.v THEN "start_after_end"
    ELSE "ok"

\* The loop of lines 58-64 from entry k on: the first raise wins.
RECURSIVE CheckTimes(_, _)
CheckTimes(list, k) ==
    IF k > Len(list) THEN "ok"
    ELSE LET m == list[k] IN
         IF ~Comparable(m.start_time, IntV(0)) THEN "TypeError"
         ELSE IF m.start_time.v < 0 THEN "start_time_negative"
         ELSE IF ~Comparable(m.end_time, IntV(0)) THEN "TypeError"
         ELSE IF m.end_time.v < 0 THEN "end_time_negative"
         ELSE IF ~Comparable(m.start_time, m.end_time) THEN "TypeError"
         ELSE IF m.start_time.v > m.end_time.v THEN "start_after_end"
         ELSE CheckTimes(list, k + 1)

validate_request(request_json) ==
    IF request_json.t # "obj" THEN Raise("AttributeError", "no attribute get")
    ELSE IF request_json.splice_offset.t = "null" THEN Raise("BadRequest", "no_splice_offset")
    ELSE IF request_json.splice_offset.t # "int" THEN Raise("BadRequest", "splice_offset_not_int")
    ELSE IF request_json.vdl_t = "null" THEN Raise("BadRequest", "no_video_details_list")
    ELSE IF request_json.vdl_t # "list" THEN Raise("BadRequest", "video_details_list_not_list")
    ELSE LET list == request_json.video_details_list
             so == request_json.splice_offset.v
         IN
         IF \E k \in 1..Len(list) : ~VideoMetadataOk(list[k])
           THEN Raise("BadRequest", "conversion_error")
         ELSE IF so < 0 THEN Raise("BadRequest", "splice_offset_negative")
         ELSE IF Len(list) < 1 THEN Raise("BadRequest", "video_details_list_empty")
         ELSE LET mds == [k \in 1..Len(list) |-> VideoMetadata(list[k])]
                  c == CheckTimes(mds, 1)
              IN
              IF c = "ok" THEN Return([splice_offset |-> so, video_details_list |-> mds])
              ELSE IF c = "TypeError" THEN Raise("TypeError", "unorderable types")
              ELSE Raise("BadRequest", c)

(* ----------------------- the HTTP error handlers ---------------------- *)
Response(status, description, embedded, data) ==
    [status |-> status, description |-> description, embedded |-> embedded, data |-> data]

NoResponse == Response(0, "", {}, <<>>)

\* app.py handle_bad_request: 400 with the BadRequest's description.
handle_bad_request(description) == Response(400, description, {}, <<>>)

\* An exception that is no HTTPException: Flask answers with its generic
\* InternalServerError, which handle_exception turns into JSON.  Nothing of
\* the original exception is in it.
handle_exception == Response(500, "Internal Server Error", {}, <<>>)

\* execute line 95, make_response: the 500 response that names the tool's status.
DownloadErrorResponse(error_code) ==
    Response(500, "Error occurred while downloading YouTube Video. Error code", {error_code}, <<>>)

\* `raise r` where r is a Response: a Response is no exception, so Python
\* raises TypeError in its place, r is dropped, and Flask answers the
\* TypeError with its generic 500.
RaiseResponse(r) == handle_exception

ErrorResponse(o) ==
    IF o.kind = "BadRequest" THEN handle_bad_request(o.description) ELSE handle_exception

\* app.py splice_videos, lines 37-41: the body, then validate_request.
splice_videos_validate(request_json) ==
    IF request_json.t = "null" THEN Raise("BadRequest", "no_body")
    ELSE validate_request(request_json)

(* ------------------------------ audio --------------------------------- *)
\* A decoded segment is a sequence of chunks; + on segments is \o.
Chunk(kind, video_id, start, end, ms) ==
    [kind |-> kind, video_id |-> video_id, start |-> start, end |-> end, ms |-> ms]

\* AudioSegment.from_file: the audio the file holds.
from_file(data) ==
    << Chunk("audio", data.video_id, data.start, data.end, (data.end - data.start) * 1000) >>

\* AudioSegment.silent(duration): duration is in milliseconds.
silent(duration) == << Chunk("silence", "", 0, 0, duration) >>

(* ---------------------------- file system ----------------------------- *)
NoFile == [exists |-> FALSE, data |-> <<>>]
NoDir == [exists |-> FALSE, files |-> {}]

\* outtmpl: the file is named after the video's title, which the video decides.
Title(video_id) == video_id

WriteFile(dir, name, data) ==
    [exists |-> TRUE,
     files |-> {f \in dir.files : f.name # name} \cup {[name |-> name, data |-> data]}]

HasFile(dir, name) == dir.exists /\ \E f \in dir.files : f.name = name

ReadFile(dir, name) == (CHOOSE f \in dir.files : f.name = name).data

(* ------------------------- the handler threads ------------------------ *)
IdleThread ==
    [pc |-> "idle", request_json |-> NoBody, splice_videos_request |-> EmptyRequest,
     index |-> 0, combined_segment |-> <<>>, error_code |-> 0, file_name |-> "",
     queue |-> <<>>, response |-> NoResponse]

\* History of the request a thread is handling: the file system when the
\* request arrived, calls of the download tool, whether validation passed,
\* the index of the segment whose download failed (-1: none), whether the
\* combined segment was exported.
NoHist ==
    [artifact0 |-> NoFile, temp0 |-> NoDir, calls |-> 0, validated |-> FALSE,
     failed_index |-> -1, exported |-> FALSE]

\* What the download tool may do in one call: its status, and how many times
\* it calls the progress hook before it returns.
Statuses == {0, 1, 2}
HookCalls == {0, 1, 2}

Init ==
    /\ limit = 1
    /\ reqCount = 0
    /\ artifact = NoFile
    /\ temp = NoDir
    /\ th = [i \in Threads |-> IdleThread]
    /\ hist = [i \in Threads |-> NoHist]
    /\ races = {}

InitConc ==
    /\ limit \in {1, 2}
    /\ reqCount = 0
    /\ artifact = NoFile
    /\ temp = NoDir
    /\ th = [i \in Threads |-> IdleThread]
    /\ hist = [i \in Threads |-> NoHist]
    /\ races = {}

\* An exception leaves the handler: Flask answers 500.
Fail(i) == [th EXCEPT ![i].pc = "done", ![i].response = handle_exception]

\* app.py line 37: a request arrives at an idle thread, its body is one of P.
Receive(i, P) ==
    /\ th[i].pc = "idle"
    /\ i <= limit
    /\ reqCount < (IF limit = 1 THEN MaxRequests ELSE MaxConcRequests)
    /\ \E p \in P : th' = [th EXCEPT ![i].pc = "validate", ![i].request_json = p]
    /\ hist' = [hist EXCEPT ![i] = [NoHist EXCEPT !.artifact0 = artifact, !.temp0 = temp]]
    /\ reqCount' = reqCount + 1
    /\ UNCHANGED <<limit, artifact, temp, races>>

\* A variant of the handler that clears the old combined file before it
\* validates.
ValidateAfterCleanup(i) ==
    /\ th[i].pc = "validate"
    /\ artifact' = NoFile
    /\ LET o == splice_videos_validate(th[i].request_json) IN
       IF o.kind = "return"
         THEN /\ th' = [th EXCEPT ![i].pc = "exists_artifact",
                                  ![i].splice_videos_request = o.req]
              /\ hist' = [hist EXCEPT ![i].validated = TRUE]
         ELSE /\ th' = [th EXCEPT ![i].pc = "done", ![i].response = ErrorResponse(o)]
              /\ UNCHANGED hist
    /\ UNCHANGED <<limit, reqCount, temp, races>>

\* app.py lines 38-41: the body check and validate_request.
Validate(i) ==
    /\ th[i].pc = "validate"
    /\ LET o == splice_videos_validate(th[i].request_json) IN
       IF o.kind = "return"
         THEN /\ th' = [th EXCEPT ![i].pc = "exists_artifact",
                                  ![i].splice_videos_request = o.req]
              /\ hist' = [hist EXCEPT ![i].validated = TRUE]
         ELSE /\ th' = [th EXCEPT ![i].pc = "done", ![i].response = ErrorResponse(o)]
              /\ UNCHANGED hist
    /\ UNCHANGED <<limit, reqCount, artifact, temp, races>>

\* Another thread has exported the combined file and not yet sent it.
Sending(j) == th[j].pc \in {"isfile", "send_file"}

\* Another thread has a downloaded file in the directory, not yet decoded.
Undecoded(j) ==
    /\ th[j].pc = "check_error"
    /\ th[j].error_code = 0
    /\ HasFile(temp, th[j].file_name)

\* execute line 70.
ExistsArtifact(i) ==
    /\ th[i].pc = "exists_artifact"
    /\ th' = [th EXCEPT ![i].pc = IF artifact.exists THEN "os_remove" ELSE "exists_temp"]
    /\ UNCHANGED <<limit, reqCount, artifact, temp, hist, races>>

\* A variant of line 71 that leaves the old combined file where it is.
OsRemoveKeepsFile(i) ==
    /\ th[i].pc = "os_remove"
    /\ th' = [th EXCEPT ![i].pc = "exists_temp"]
    /\ UNCHANGED <<limit, reqCount, artifact, temp, hist, races>>

\* execute line 71: os.remove raises FileNotFoundError when the file is gone.
OsRemove(i) ==
    /\ th[i].pc = "os_remove"
    /\ IF artifact.exists
         THEN /\ artifact' = NoFile
              /\ th' = [th EXCEPT ![i].pc = "exists_temp"]
              /\ races' = IF \E j \in Threads \ {i} : Sending(j) THEN races \cup {"b"} ELSE races
         ELSE /\ th' = Fail(i)
              /\ UNCHANGED <<artifact, races>>
    /\ UNCHANGED <<limit, reqCount, temp, hist>>

\* execute line 74.
ExistsTemp(i) ==
    /\ th[i].pc = "exists_temp"
    /\ th' = [th EXCEPT ![i].pc = IF temp.exists THEN "download" ELSE "mkdir"]
    /\ UNCHANGED <<limit, reqCount, artifact, temp, hist, races>>

\* execute line 75: os.mkdir raises FileExistsError when the directory is there.
Mkdir(i) ==
    /\ th[i].pc = "mkdir"
    /\ IF temp.exists
         THEN /\ th' = Fail(i)
              /\ UNCHANGED temp
         ELSE /\ temp' = [exists |-> TRUE, files |-> {}]
              /\ th' = [th EXCEPT ![i].pc = "download"]
    /\ UNCHANGED <<limit, reqCount, artifact, hist, races>>

\* execute lines 77-82 and download_video lines 115-134: the tool is called
\* once for segment `index`.  It returns a status after calling the hook some
\* number of times, each call putting a dict with the file's name on the
\* queue; it has written the file when it succeeded or got as far as a hook.
Download(i) ==
    /\ th[i].pc = "download"
    /\ LET md == th[i].splice_videos_request.video_details_list[th[i].index + 1]
           name == Title(md.video_id)
           data == [video_id |-> md.video_id, start |-> md.start_time.v, end |-> md.end_time.v]
       IN
       \E status \in Statuses, hooks \in HookCalls :
          /\ th' = [th EXCEPT ![i].pc = "queue_get",
                              ![i].error_code = status,
                              ![i].queue = [k \in 1..hooks |-> [filename |-> name]]]
          /\ temp' = IF status = 0 \/ hooks > 0 THEN WriteFile(temp, name, data) ELSE temp
          /\ hist' = [hist EXCEPT ![i].calls = @ + 1,
                                  ![i].failed_index = IF status # 0 THEN th[i].index ELSE @]
    /\ UNCHANGED <<limit, reqCount, artifact, races>>

\* download_video line 136: queue.get() takes the last dict put, and waits
\* for one while the queue is empty.
QueueGet(i) ==
    /\ th[i].pc = "queue_get"
    /\ th[i].queue # <<>>
    /\ th' = [th EXCEPT ![i].pc = "check_error",
                        ![i].file_name = th[i].queue[Len(th[i].queue)].filename,
                        ![i].queue = <<>>]
    /\ UNCHANGED <<limit, reqCount, artifact, temp, hist, races>>

\* A variant of lines 87-93 that puts the silence in front of every segment,
\* the first included.
CombineSilenceFirst(index, combined_segment, new_segment, splice_offset) ==
    combined_segment \o silent(splice_offset * 1000) \o new_segment

\* execute lines 87-93: the combined segment after segment `index`.
Combine(index, combined_segment, new_segment, splice_offset) ==
    IF index = 0 THEN new_segment
    ELSE combined_segment \o silent(splice_offset * 1000) \o new_segment

\* execute lines 84-93 and the loop's step: decode the file and append it.
\* from_file raises FileNotFoundError when the file is gone.
AppendSegment(i) ==
    /\ th[i].pc = "check_error"
    /\ th[i].error_code = 0
    /\ IF HasFile(temp, th[i].file_name)
         THEN LET new_segment == from_file(ReadFile(temp, th[i].file_name))
                  n == Len(th[i].splice_videos_request.video_details_list)
              IN
              th' = [th EXCEPT
                       ![i].combined_segment =
                           Combine(th[i].index, th[i].combined_segment, new_segment,
                                   th[i].splice_videos_request.splice_offset),
                       ![i].index = @ + 1,
                       ![i].pc = IF th[i].index + 1 < n THEN "download" ELSE "rmtree"]
         ELSE th' = Fail(i)
    /\ UNCHANGED <<limit, reqCount, artifact, temp, hist, races>>

\* A variant of lines 94-95 that skips a failed segment and goes on.
SkipFailedSegment(i) ==
    /\ th[i].pc = "check_error"
    /\ th[i].error_code # 0
    /\ th' = [th EXCEPT
                ![i].index = @ + 1,
                ![i].pc = IF th[i].index + 1 < Len(th[i].splice_videos_request.video_details_list)
                            THEN "download" ELSE "rmtree"]
    /\ UNCHANGED <<limit, reqCount, artifact, temp, hist, races>>

\* execute lines 94-95: raise make_response(...).
RaiseDownloadError(i) ==
    /\ th[i].pc = "check_error"
    /\ th[i].error_code # 0
    /\ th' = [th EXCEPT ![i].pc = "done",
                        ![i].response = RaiseResponse(DownloadErrorResponse(th[i].error_code))]
    /\ UNCHANGED <<limit, reqCount, artifact, temp, hist, races>>

\* execute line 98: shutil.rmtree raises FileNotFoundError when the directory is gone.
Rmtree(i) ==
    /\ th[i].pc = "rmtree"
    /\ IF temp.exists
         THEN /\ temp' = NoDir
              /\ th' = [th EXCEPT ![i].pc = "export"]
              /\ races' = IF \E j \in Threads \ {i} : Undecoded(j) THEN races \cup {"a"} ELSE races
         ELSE /\ th' = Fail(i)
              /\ UNCHANGED <<temp, races>>
    /\ UNCHANGED <<limit, reqCount, artifact, hist>>

\* A variant of line 100 that exports inside the working directory's place,
\* which line 98 has removed: nothing is written at the output path.
ExportNowhere(i) ==
    /\ th[i].pc = "export"
    /\ th' = [th EXCEPT ![i].pc = "isfile"]
    /\ hist' = [hist EXCEPT ![i].exported = TRUE]
    /\ UNCHANGED <<limit, reqCount, artifact, temp, races>>

\* execute line 100.
Export(i) ==
    /\ th[i].pc = "export"
    /\ artifact' = [exists |-> TRUE, data |-> th[i].combined_segment]
    /\ th' = [th EXCEPT ![i].pc = "isfile"]
    /\ hist' = [hist EXCEPT ![i].exported = TRUE]
    /\ races' = IF \E j \in Threads \ {i} : Sending(j) THEN races \cup {"b"} ELSE races
    /\ UNCHANGED <<limit, reqCount, temp>>

\* execute lines 104-105 and 107-108.
IsFile(i) ==
    /\ th[i].pc = "isfile"
    /\ th' = IF artifact.exists
               THEN [th EXCEPT ![i].pc = "send_file"]
               ELSE [th EXCEPT ![i].pc = "done",
                               ![i].response = Response(404, "File not found.", {}, <<>>)]
    /\ UNCHANGED <<limit, reqCount, artifact, temp, hist, races>>

\* execute lines 106 and 109-110: send_file opens the file; when that fails
\* the except clause answers 500 with the exception's text.
SendFile(i) ==
    /\ th[i].pc = "send_file"
    /\ th' = [th EXCEPT
                ![i].pc = "done",
                ![i].response =
                    IF artifact.exists
                      THEN Response(200, "attachment", {}, artifact.data)
                      ELSE Response(500, "Error occurred while sending audio file", {}, <<>>)]
    /\ UNCHANGED <<limit, reqCount, artifact, temp, hist, races>>

\* The response has gone out: the thread is free for the next request.
Finish(i) ==
    /\ th[i].pc = "done"
    /\ th' = [th EXCEPT ![i] = IdleThread]
    /\ hist' = [hist EXCEPT ![i] = NoHist]
    /\ UNCHANGED <<limit, reqCount, artifact, temp, races>>

(* --------------------------- request bodies --------------------------- *)
Lists(S, n) == UNION {[1..k -> S] : k \in 0..n}

\* Bodies drawn for validate_request alone: every kind of splice_offset and
\* video_details_list, entries well-shaped with every kind of time, and the
\* three ways an entry can fail to be a VideoMetadata.
JTimes == {IntV(n) : n \in -1..1} \cup {Str}
JOffsets == {Null, Str} \cup {IntV(n) : n \in -1..1}
JItems ==
    {Item("obj", ItemKeys, "a", s, e) : s \in JTimes, e \in JTimes}
      \cup {Item("obj", ItemKeys \ {"start_time"}, "a", Null, IntV(1)),
            Item("obj", ItemKeys \cup {"extra"}, "a", IntV(0), IntV(1)),
            Item("int", {}, "", Null, Null)}

Payloads ==
    {NoBody, Body("list", Null, "null", <<>>)}
      \cup {Body("obj", so, vt, <<>>) : so \in JOffsets, vt \in {"null", "str"}}
      \cup {Body("obj", so, "list", l) : so \in JOffsets, l \in Lists(JItems, MaxItems)}

\* Bodies of the requests that are executed: the valid ones over two videos
\* (one of them asked for with two time windows),
\* and one invalid body of each kind.
SegA == Item("obj", ItemKeys, "a", IntV(0), IntV(1))
SegB == Item("obj", ItemKeys, "b", IntV(0), IntV(2))
SegC == Item("obj", ItemKeys, "a", IntV(1), IntV(2))

ValidPayloads ==
    {Body("obj", IntV(so), "list", l) :
        so \in {0, 1}, l \in Lists({SegA, SegB, SegC}, MaxSegs) \ {<<>>}}

InvalidPayloads ==
    {NoBody,
     Body("obj", Null, "list", <<SegA>>),
     Body("obj", IntV(-1), "list", <<SegA>>),
     Body("obj", IntV(0), "null", <<>>),
     Body("obj", IntV(0), "list", <<>>),
     Body("obj", IntV(0), "list", <<Item("obj", ItemKeys \ {"start_time"}, "a", Null, IntV(1))>>),
     Body("obj", IntV(0), "list", <<Item("obj", ItemKeys, "a", Str, IntV(1))>>),
     Body("obj", IntV(0), "list", <<Item("obj", ItemKeys, "a", IntV(-1), IntV(1))>>),
     Body("obj", IntV(0), "list", <<Item("obj", ItemKeys, "a", IntV(1), IntV(0))>>)}

ExecPayloads == ValidPayloads \cup InvalidPayloads

\* Bodies of the requests handled two at a time.
ConcPayloads ==
    {Body("obj", IntV(0), "list", <<SegA>>),
     Body("obj", IntV(0), "list", <<SegB>>)}

(* --------------------------- specifications --------------------------- *)
Step(i) ==
    \/ Validate(i)
    \/ ExistsArtifact(i)
    \/ OsRemove(i)
    \/ ExistsTemp(i)
    \/ Mkdir(i)
    \/ Download(i)
    \/ QueueGet(i)
    \/ AppendSegment(i)
    \/ RaiseDownloadError(i)
    \/ Rmtree(i)
    \/ Export(i)
    \/ IsFile(i)
    \/ SendFile(i)
    \/ Finish(i)

\* One request at a time, as the design supports.
Next == \E i \in Threads : Receive(i, ExecPayloads) \/ Step(i)

Spec == Init /\ [][Next]_vars

\* Up to two requests at a time, as Flask's threaded server allows.
NextConc == \E i \in Threads : Receive(i, ConcPayloads) \/ Step(i)

SpecConc == InitConc /\ [][NextConc]_vars

\* validate_request on every body, nothing else.
NextValidate == Receive(1, Payloads) \/ Validate(1)

SpecValidate == Init /\ [][NextValidate]_vars

(* ============================ properties ============================== *)
Min(S) == CHOOSE x \in S : \A y \in S : x <= y

\* The number, in the specification's list of constraints, of the constraint
\* a BadRequest description is about (0: none of them).
ErrNo(description) ==
    CASE description = "no_splice_offset" -> 1
      [] description = "splice_offset_not_int" -> 2
      [] description = "no_video_details_list" -> 3
      [] description = "video_details_list_not_list" -> 4
      [] description = "conversion_error" -> 5
      [] description = "splice_offset_negative" -> 6
      [] description = "video_details_list_empty" -> 7
      [] description = "start_time_negative" -> 8
      [] description = "end_time_negative" -> 8
      [] description = "start_after_end" -> 9
      [] OTHER -> 0

\* validate_request has answered the body of thread i.
Answered(i) == th[i].pc \notin {"idle", "validate"}
Accepted(i) == Answered(i) /\ hist[i].validated
Rejected(i) == th[i].pc = "done" /\ ~hist[i].validated

\* The constraints, as the specification lists them, on an object body.
WellShaped(item) == item.t = "obj" /\ item.keys = ItemKeys
NumericTimes(item) == item.start_time.t = "int" /\ item.end_time.t = "int"
Negative(item) == item.start_time.v < 0 \/ item.end_time.v < 0
Disordered(item) == item.start_time.v > item.end_time.v

IsList(p) == p.vdl_t = "list"
Entries(p) == {p.video_details_list[k] : k \in 1..Len(p.video_details_list)}
AllNumeric(p) == \A item \in Entries(p) : WellShaped(item) => NumericTimes(item)

Violated(p) ==
    {c \in 1..9 :
        \/ c = 1 /\ p.splice_offset.t = "null"
        \/ c = 2 /\ p.splice_offset.t \notin {"null", "int"}
        \/ c = 3 /\ p.vdl_t = "null"
        \/ c = 4 /\ p.vdl_t \notin {"null", "list"}
        \/ c = 5 /\ IsList(p) /\ \E item \in Entries(p) : ~WellShaped(item)
        \/ c = 6 /\ p.splice_offset.t = "int" /\ p.splice_offset.v < 0
        \/ c = 7 /\ IsList(p) /\ p.video_details_list = <<>>
        \/ c = 8 /\ IsList(p) /\ \E item \in Entries(p) :
                       WellShaped(item) /\ NumericTimes(item) /\ Negative(item)
        \/ c = 9 /\ IsList(p) /\ \E item \in Entries(p) :
                       WellShaped(item) /\ NumericTimes(item) /\ Disordered(item)}

Offending(item) == ~NumericTimes(item) \/ Negative(item) \/ Disordered(item)

ValidBody(p) ==
    /\ p.t = "obj"
    /\ p.splice_offset.t = "int" /\ p.splice_offset.v >= 0
    /\ IsList(p) /\ p.video_details_list # <<>>
    /\ \A item \in Entries(p) :
          WellShaped(item) /\ NumericTimes(item) /\ ~Negative(item) /\ ~Disordered(item)

\* C2 as the specification states it: a body that is an object, or missing,
\* is accepted when it is valid and otherwise answered with status 400.
C2_AcceptOr400 ==
    \A i \in Threads :
        LET p == th[i].request_json IN
        (Answered(i) /\ p.t \in {"obj", "null"}) =>
            IF ValidBody(p) THEN Accepted(i)
            ELSE Rejected(i) /\ th[i].response.status = 400

\* C3: when validation rejects a request -- with a 400, or with the 500 of an
\* uncaught exception -- nothing of execute has run: the download tool was
\* not called, and the combined file and the working directory are as they
\* were when the request arrived.
C3_FailFast ==
    \A i \in Threads :
        Rejected(i) =>
            /\ hist[i].calls = 0
            /\ artifact = hist[i].artifact0
            /\ temp = hist[i].temp0
            /\ ~hist[i].exported

\* C3 witness: a request is rejected while an earlier request's combined file
\* and an aborted request's downloads are on disk, and they stay.
C3_Witness ==
    \E i \in Threads :
        /\ Rejected(i)
        /\ th[i].response.status = 400
        /\ hist[i].calls = 0
        /\ temp.exists /\ temp.files # {}
        /\ temp = hist[i].temp0

\* The audio of segment k of a validated request, and the combination the
\* specification asks for: 2n-1 chunks, segment k at place 2k-1, and at every
\* even place silence of splice_offset seconds.
SegmentAudio(md) ==
    Chunk("audio", md.video_id, md.start_time.v, md.end_time.v,
          (md.end_time.v - md.start_time.v) * 1000)

IsCombination(buffer, req) ==
    LET n == Len(req.video_details_list) IN
    /\ Len(buffer) = 2 * n - 1
    /\ \A k \in 1..n : buffer[2 * k - 1] = SegmentAudio(req.video_details_list[k])
    /\ \A k \in 1..(n - 1) :
          buffer[2 * k].kind = "silence" /\ buffer[2 * k].ms = req.splice_offset * 1000
    /\ Cardinality({k \in 1..Len(buffer) : buffer[k].kind = "silence"}) = n - 1

\* C4: what execute exports is seg[0], silence, seg[1], ..., seg[n-1] in
\* request order, with n-1 gaps of splice_offset seconds, none before the
\* first or after the last segment.
C4_CombinedInOrder ==
    \A i \in Threads :
        hist[i].exported =>
            /\ IsCombination(th[i].combined_segment, th[i].splice_videos_request)
            /\ hist[i].calls = Len(th[i].splice_videos_request.video_details_list)

\* C4 witness: a request of two different segments with a gap of one second
\* has been exported.
C4_Witness ==
    \E i \in Threads :
        LET req == th[i].splice_videos_request IN
        /\ hist[i].exported
        /\ req.splice_offset = 1
        /\ Len(req.video_details_list) = 2
        /\ req.video_details_list[1].video_id # req.video_details_list[2].video_id
        /\ artifact.exists /\ Len(artifact.data) = 3
        /\ artifact.data[2].ms = 1000

\* C5: once the download of segment k has returned a non-zero status the
\* tool is not called again, nothing is exported, and when the request has
\* ended there is no combined file and the status is an error.
C5_AbortOnFetchFailure ==
    \A i \in Threads :
        hist[i].failed_index >= 0 =>
            /\ hist[i].calls = hist[i].failed_index + 1
            /\ th[i].index = hist[i].failed_index
            /\ th[i].pc \in {"queue_get", "check_error", "done"}
            /\ ~hist[i].exported
            /\ th[i].pc = "done" => ~artifact.exists /\ th[i].response.status >= 400

\* C5 witness: the first of two segments failed after an earlier request had
\* left a combined file, and the request has ended with an error.
C5_Witness ==
    \E i \in Threads :
        /\ th[i].pc = "done"
        /\ hist[i].failed_index = 0
        /\ Len(th[i].splice_videos_request.video_details_list) = 2
        /\ hist[i].artifact0.exists
        /\ th[i].response.status = 500

\* C6 as the specification states it: a request that ended after a download
\* returned status c /= 0 is answered with a 500 that carries c.
C6_ErrorCarriesCode ==
    \A i \in Threads :
        (th[i].pc = "done" /\ hist[i].failed_index >= 0) =>
            /\ th[i].response.status = 500
            /\ th[i].error_code \in th[i].response.embedded

\* C7 as the specification states it: once the tool has returned,
\* download_video can return -- it is never left waiting on an empty queue.
C7_DownloadReturns ==
    \A i \in Threads :
        th[i].pc = "queue_get" => th[i].queue # <<>>

\* C8 as the specification states it: when a request has ended, the combined
\* file exists exactly when that request passed validation and all its
\* downloads succeeded, and then it is the combination of its segments.
C8_ArtifactOfLastRequest ==
    \A i \in Threads :
        th[i].pc = "done" =>
            /\ artifact.exists <=> (hist[i].validated /\ hist[i].failed_index < 0)
            /\ artifact.exists => IsCombination(artifact.data, th[i].splice_videos_request)

\* C8, amended: when a request that passed validation has ended, the combined
\* file exists exactly when all its downloads succeeded, and then it is the
\* combination of that request's segments only and is what was sent; when a
\* request rejected by validation has ended, the combined file is as it was
\* before the request (an earlier request's file stays).
C8_ArtifactOfLastValidRequest ==
    \A i \in Threads :
        th[i].pc = "done" =>
            IF hist[i].validated
              THEN /\ artifact.exists <=> hist[i].failed_index < 0
                   /\ artifact.exists =>
                         /\ IsCombination(artifact.data, th[i].splice_videos_request)
                         /\ th[i].response.status = 200
                         /\ th[i].response.data = artifact.data
              ELSE artifact = hist[i].artifact0

\* C8 witness: the second request is rejected by validation and the first
\* request's combined file is still there.
C8_Witness ==
    \E i \in Threads :
        /\ reqCount = 2
        /\ Rejected(i)
        /\ artifact.exists
        /\ ~IsCombination(artifact.data, th[i].splice_videos_request)

\* C9 as the specification states it: when a request starts to download its
\* first segment the working directory exists and is empty.
C9_FreshWorkingDirectory ==
    \A i \in Threads :
        (th[i].pc = "download" /\ th[i].index = 0) => (temp.exists /\ temp.files = {})

\* The two interferences, as states: a thread is about to decode a file that
\* is no longer in the working directory; a thread is about to send the
\* combined file and the file is not what it exported.
LostDownload(i) ==
    th[i].pc = "check_error" /\ th[i].error_code = 0 /\ ~HasFile(temp, th[i].file_name)

LostArtifact(i) ==
    Sending(i) /\ artifact # [exists |-> TRUE, data |-> th[i].combined_segment]

\* C10: a working directory removed under an undecoded download, and a
\* combined file deleted or rewritten between export and send, happen only
\* when two requests are handled at once.
C10_RacesNeedTwoRequests ==
    (races # {} \/ \E i \in Threads : LostDownload(i) \/ LostArtifact(i)) => limit = 2

\* C10 witness: with two requests at once both interferences have happened.
C10_Witness ==
    limit = 2 /\ races = {"a", "b"}

====
